---- MODULE Spec2Model ----
(***************************************************************************)
(* Galaxy visualisation geometry of worldbuilder-client                    *)
(* (src/src/pages/GalaxyMap.tsx): the multi-star layout solver, the orbit  *)
(* scale resolver, the orbit geometry generator and the per-frame star     *)
(* placement, modelled over exact arithmetic.                              *)
(*                                                                         *)
(* A JavaScript number is modelled by an exact element of Q(sqrt 3), the   *)
(* tuple <<p, q, d>> standing for (p + q*sqrt(3)) / d with d >= 0 and      *)
(* gcd(p, q, d) = 1.  d = 0 stands for the IEEE infinities (<<1,0,0>> is   *)
(* +Infinity, <<-1,0,0>> is -Infinity).  Q(sqrt 3) holds the sines and     *)
(* cosines of every multiple of 30 degrees, so positions on circles and    *)
(* ellipses are exact at those angles.  An angle (a value handed to        *)
(* Math.cos / Math.sin) is a number in units of pi radians, Math.PI is 1.  *)
(* The value undefined (an absent optional field) is the empty tuple.      *)
(***************************************************************************)
EXTENDS Integers, Sequences, FiniteSets, TLC

\* ------------------------------------------------------------------------
\* Exact numbers
\* ------------------------------------------------------------------------
Abs(n) == IF n < 0 THEN -n ELSE n

RECURSIVE Gcd(_, _)
Gcd(a, b) == IF b = 0 THEN a ELSE Gcd(b, a % b)

Norm(p, q, d) ==
  LET g == Gcd(Gcd(Abs(p), Abs(q)), Abs(d))
      s == IF d < 0 THEN -1 ELSE 1
  IN  IF g = 0 THEN <<0, 0, 0>>
      ELSE <<(s * p) \div g, (s * q) \div g, (s * d) \div g>>

Num(n) == <<n, 0, 1>>
Frac(n, d) == Norm(n, 0, d)

Zero == Num(0)
One == Num(1)
Undefined == <<>>
\* NaN, the value of 0/0 and of Infinity - Infinity
NaN == <<0, 0, 0>>
IsNaN(x) == x = NaN
\* the coercion of a value to a number: undefined becomes NaN
ToNumber(x) == IF x = Undefined THEN NaN ELSE x

\* sign of p/q - y for p, q > 0, where y is sqrt(3) (k = 0) or a later tail of
\* its continued fraction [1; 1, 2, 1, 2, ...]; compares without squaring
RECURSIVE CmpSqrt3(_, _, _)
CmpSqrt3(p, q, k) ==
  LET a == IF k > 0 /\ k % 2 = 0 THEN 2 ELSE 1
      f == p \div q
  IN  IF f > a THEN 1
      ELSE IF f < a \/ p - a * q = 0 THEN -1
      ELSE -CmpSqrt3(q, p - a * q, k + 1)

\* sign of p + q*sqrt(3)
Sign(x) ==
  LET p == x[1]
      q == x[2]
  IN  IF p >= 0 /\ q >= 0 THEN (IF p = 0 /\ q = 0 THEN 0 ELSE 1)
      ELSE IF p <= 0 /\ q <= 0 THEN -1
      ELSE IF p > 0 THEN CmpSqrt3(p, -q, 0)
      ELSE -CmpSqrt3(-p, q, 0)

IsFinite(x) == x # Undefined /\ x[3] > 0

Neg(x) == <<-x[1], -x[2], x[3]>>
\* sums are taken over the least common denominator, products are cancelled
\* before multiplying, to keep the integers small; NaN in, NaN out
Add(x, y) ==
  IF IsNaN(x) \/ IsNaN(y) THEN NaN
  ELSE
  LET g == Gcd(x[3], y[3])
      a == IF g = 0 THEN 1 ELSE y[3] \div g
      b == IF g = 0 THEN 1 ELSE x[3] \div g
  IN  Norm(x[1] * a + y[1] * b, x[2] * a + y[2] * b, x[3] * a)
Sub(x, y) == Add(x, Neg(y))
Mul(x, y) ==
  IF IsNaN(x) \/ IsNaN(y) THEN NaN
  ELSE
  LET g1 == Gcd(Gcd(Abs(x[1]), Abs(x[2])), y[3])
      g2 == Gcd(Gcd(Abs(y[1]), Abs(y[2])), x[3])
      c1 == IF g1 = 0 THEN 1 ELSE g1
      c2 == IF g2 = 0 THEN 1 ELSE g2
      p1 == x[1] \div c1
      q1 == x[2] \div c1
      d1 == x[3] \div c2
      p2 == y[1] \div c2
      q2 == y[2] \div c2
      d2 == y[3] \div c1
  IN  Norm(p1 * p2 + 3 * q1 * q2, p1 * q2 + q1 * p2, d1 * d2)

\* x / y; a non-zero number over zero is an infinity of the number's sign
Div(x, y) ==
  IF Sign(y) = 0 /\ y[3] > 0 THEN <<Sign(x), 0, 0>>
  ELSE Mul(x, Norm(y[3] * y[1], -(y[3] * y[2]), y[1] * y[1] - 3 * y[2] * y[2]))

Lt(x, y) == Sign(Sub(y, x)) > 0
Le(x, y) == Lt(x, y) \/ (x = y /\ ~IsNaN(x))
Gt(x, y) == Lt(y, x)
Ge(x, y) == Le(y, x)

\* Math.max / Math.min of two values: NaN if either coerces to NaN
Max(x, y) ==
  IF IsNaN(ToNumber(x)) \/ IsNaN(ToNumber(y)) THEN NaN
  ELSE IF Lt(x, y) THEN y ELSE x
Min(x, y) ==
  IF IsNaN(ToNumber(x)) \/ IsNaN(ToNumber(y)) THEN NaN
  ELSE IF Lt(y, x) THEN y ELSE x

RECURSIVE Newton(_, _)
Newton(n, x) ==
  LET y == (x + n \div x) \div 2
  IN  IF y >= x THEN x ELSE Newton(n, y)

\* floor of the square root of a natural number
ISqrt(n) == IF n = 0 THEN 0 ELSE Newton(n, n)
IsSquare(n) == n >= 0 /\ ISqrt(n) * ISqrt(n) = n

\* whether Math.sqrt(x) is an element of Q(sqrt 3): x = s^2 or x = 3 s^2, s rational
HasSqrt(x) ==
  /\ x[2] = 0 /\ x[1] >= 0 /\ x[3] > 0
  /\ \/ IsSquare(x[1]) /\ IsSquare(x[3])
     \/ x[1] % 3 = 0 /\ IsSquare(x[1] \div 3) /\ IsSquare(x[3])
     \/ x[3] % 3 = 0 /\ IsSquare(3 * x[1]) /\ IsSquare(x[3] \div 3)

\* Math.sqrt, exact: NaN for undefined, NaN and negative numbers, Infinity for
\* Infinity; for the other numbers defined where HasSqrt holds
Sqrt(x) ==
  IF IsNaN(ToNumber(x)) \/ Sign(x) < 0 THEN NaN
  ELSE IF x[3] = 0 THEN x
  ELSE
  CHOOSE r \in { <<ISqrt(x[1]), 0, ISqrt(x[3])>>,
                 Norm(0, ISqrt(x[1] \div 3), ISqrt(x[3])),
                 Norm(0, ISqrt(3 * x[1]), 3 * ISqrt(x[3] \div 3)) } :
      Sign(r) >= 0 /\ Mul(r, r) = x

\* ------------------------------------------------------------------------
\* Angles, in units of pi radians
\* ------------------------------------------------------------------------
PI == One

\* the angle as a count of 30-degree steps in 0..11; defined for multiples of pi/6
Twelfth(a) ==
  LET n == Mul(a, Num(6))
  IN  CHOOSE j \in 0..11 : n[2] = 0 /\ n[3] = 1 /\ (n[1] - j) % 12 = 0

CosTable ==
  <<Num(1), <<0, 1, 2>>, Frac(1, 2), Num(0), Frac(-1, 2), <<0, -1, 2>>,
    Num(-1), <<0, -1, 2>>, Frac(-1, 2), Num(0), Frac(1, 2), <<0, 1, 2>>>>

\* Math.cos, Math.sin
Cos(a) == CosTable[Twelfth(a) + 1]
Sin(a) == CosTable[((Twelfth(a) + 9) % 12) + 1]

\* ------------------------------------------------------------------------
\* Helpers of the language
\* ------------------------------------------------------------------------
\* x || dflt : undefined, 0 and NaN are falsy
OrElse(x, dflt) == IF x = Undefined \/ Sign(x) = 0 THEN dflt ELSE x

\* x ?? dflt
Nullish(x, dflt) == IF x = Undefined THEN dflt ELSE x

\* Math.max(init, ...list)
RECURSIVE MaxOf(_, _)
MaxOf(init, list) ==
  IF list = <<>> THEN init ELSE MaxOf(Max(init, Head(list)), Tail(list))

DEG2RAD == Div(PI, Num(180))

\* ------------------------------------------------------------------------
\* computeStarLayout
\* ------------------------------------------------------------------------
safetyFactor == Frac(5, 2)

StarInfos(stars) ==
  [i \in 1..Len(stars) |->
    [displayR |-> IF i = 1
                  THEN Max(Frac(6, 10), Mul(Sqrt(stars[i].radius), Frac(8, 10)))
                  ELSE Max(Frac(4, 10), Mul(Sqrt(stars[i].radius), Frac(6, 10))),
     mass |-> OrElse(stars[i].mass, One)]]

RECURSIVE SumMass(_, _)
SumMass(infos, n) == IF n = 0 THEN Zero ELSE Add(SumMass(infos, n - 1), infos[n].mass)

\* the squared law-of-cosines coefficient handed to Math.sqrt for the pair (i, j)
DistCoeffSq(infos, i, j, angleStep) ==
  LET mi == infos[i].mass
      mj == infos[j].mass
  IN  Sub(Add(Div(One, Mul(mi, mi)), Div(One, Mul(mj, mj))),
          Div(Mul(Num(2), Cos(angleStep)), Mul(mi, mj)))

\* the loop over adjacent pairs, from star i on (stars are numbered from 1)
\* one turn of the loop: kMin after the pair whose stars must keep
\* requiredDist apart and lie distCoeff * k apart
PairMinK(minK, requiredDist, distCoeff) ==
  IF Gt(distCoeff, Zero) THEN Max(minK, Div(requiredDist, distCoeff)) ELSE minK

RECURSIVE MinKLoop(_, _, _)
MinKLoop(infos, i, minK) ==
  LET N == Len(infos)
      j == (i % N) + 1
  IN  IF i > N THEN minK
      ELSE MinKLoop(infos, i + 1,
                    PairMinK(minK,
                             Mul(Add(infos[i].displayR, infos[j].displayR), safetyFactor),
                             Sqrt(DistCoeffSq(infos, i, j, Div(Mul(Num(2), PI), Num(N))))))

MaxDataOrbit(stars) ==
  MaxOf(Zero, [i \in 1..Len(stars) |-> Mul(Nullish(stars[i].orbitRadius, Zero), Num(20))])

\* k from the author's orbit radii, when one is given
DataKOf(infos, N, totalMass, maxDataOrbit) ==
  IF Gt(maxDataOrbit, Zero)
  THEN IF N = 2
       THEN Div(Mul(Mul(maxDataOrbit, infos[1].mass), infos[2].mass), totalMass)
       ELSE Div(Mul(maxDataOrbit, totalMass), Num(N))
  ELSE Zero

DataK(stars, infos) ==
  DataKOf(infos, Len(stars), SumMass(infos, Len(stars)), MaxDataOrbit(stars))

LayoutK(stars, infos) == Max(MinKLoop(infos, 1, Zero), DataK(stars, infos))

\* faulty variant of OrbitRadii: the radius grows with the mass
OrbitRadiiTimesMass(infos, k) == [i \in 1..Len(infos) |-> Mul(k, infos[i].mass)]

OrbitRadii(infos, k) == [i \in 1..Len(infos) |-> Div(k, infos[i].mass)]

\* faulty variant of computeStarLayout: the early return taken for N < 1 only
computeStarLayoutLoneStarOrbits(stars) ==
  LET N == Len(stars)
      infos == StarInfos(stars)
  IN  IF N < 1
      THEN [infos |-> infos, orbitRadii |-> <<Zero>>, maxExtent |-> Frac(6, 10)]
      ELSE LET orbitRadii == [i \in 1..N |-> Div(LayoutK(stars, infos), infos[i].mass)]
               ends == [i \in 1..N |-> Add(orbitRadii[i], infos[i].displayR)]
           IN  [infos |-> infos, orbitRadii |-> orbitRadii,
                maxExtent |-> MaxOf(Head(ends), Tail(ends))]

\* orbitRadii[i] + infos[i].displayR, the terms of maxExtent
LayoutEnds(infos, orbitRadii) ==
  [i \in 1..Len(infos) |-> Add(orbitRadii[i], infos[i].displayR)]

\* the value returned for two stars or more
MultiStarLayout(infos, orbitRadii, ends) ==
  [infos |-> infos, orbitRadii |-> orbitRadii,
   maxExtent |-> MaxOf(Head(ends), Tail(ends))]

\* the body of computeStarLayout after infos
StarLayoutOf(stars, infos, N) ==
  IF N <= 1
  THEN [infos |-> infos, orbitRadii |-> <<Zero>>,
        maxExtent |-> IF N = 1 THEN infos[1].displayR ELSE Frac(6, 10)]
  ELSE MultiStarLayout(infos, OrbitRadii(infos, LayoutK(stars, infos)),
                       LayoutEnds(infos, OrbitRadii(infos, LayoutK(stars, infos))))

computeStarLayout(stars) == StarLayoutOf(stars, StarInfos(stars), Len(stars))

\* ------------------------------------------------------------------------
\* computeOrbitScale
\* ------------------------------------------------------------------------
buffer == Frac(3, 2)
PosInfinity == <<1, 0, 0>>

\* faulty variant of Perihelion: the semi-major axis without Math.sqrt
PerihelionNoSqrt(p) ==
  Mul(Mul(p.orbit.semiMajorAxis, Num(9)), Sub(One, p.orbit.eccentricity))

Perihelion(p) ==
  Mul(Mul(Sqrt(p.orbit.semiMajorAxis), Num(9)), Sub(One, p.orbit.eccentricity))

RECURSIVE MinPerihelionLoop(_, _)
MinPerihelionLoop(planets, minPerihelion) ==
  IF planets = <<>> THEN minPerihelion
  ELSE MinPerihelionLoop(Tail(planets), Min(minPerihelion, Perihelion(Head(planets))))

\* faulty variant of computeOrbitScale: the exclusion radius without the buffer
computeOrbitScaleNoBuffer(starMaxExtent, planets) ==
  LET minPerihelion == MinPerihelionLoop(planets, PosInfinity)
  IN  IF Len(planets) = 0 THEN One
      ELSE IF Ge(minPerihelion, starMaxExtent) THEN One
      ELSE Div(starMaxExtent, minPerihelion)

\* faulty variant of computeOrbitScale: no early return for a far perihelion
computeOrbitScaleAlwaysScaled(starMaxExtent, planets) ==
  IF Len(planets) = 0 THEN One
  ELSE Div(Add(starMaxExtent, buffer), MinPerihelionLoop(planets, PosInfinity))

\* the scale that lifts minPerihelion to the exclusion radius
ScaleFor(exclusionRadius, minPerihelion) ==
  IF Ge(minPerihelion, exclusionRadius) THEN One
  ELSE Div(exclusionRadius, minPerihelion)

computeOrbitScale(starMaxExtent, planets) ==
  IF Len(planets) = 0 THEN One
  ELSE ScaleFor(Add(starMaxExtent, buffer), MinPerihelionLoop(planets, PosInfinity))

\* ------------------------------------------------------------------------
\* MultiStarSystem: the useFrame callback placing the star groups at phase t
\* (t is clock.elapsedTime * 0.15)
\* ------------------------------------------------------------------------
Origin == [x |-> Zero, y |-> Zero, z |-> Zero]

MultiStarFrame(layout, N, groupPos, t) ==
  IF N < 2 THEN groupPos
  ELSE IF N = 2
  THEN [i \in 1..2 |->
         IF i = 1
         THEN [groupPos[1] EXCEPT !.x = Mul(layout.orbitRadii[1], Cos(t)),
                                  !.z = Mul(layout.orbitRadii[1], Sin(t))]
         ELSE [groupPos[2] EXCEPT !.x = Mul(layout.orbitRadii[2], Cos(Add(t, PI))),
                                  !.z = Mul(layout.orbitRadii[2], Sin(Add(t, PI)))]]
  ELSE [i \in 1..N |->
         [groupPos[i] EXCEPT
            !.x = Mul(layout.orbitRadii[i],
                      Cos(Add(t, Div(Mul(Mul(Num(2), PI), Num(i - 1)), Num(N))))),
            !.z = Mul(layout.orbitRadii[i],
                      Sin(Add(t, Div(Mul(Mul(Num(2), PI), Num(i - 1)), Num(N)))))]]

\* ------------------------------------------------------------------------
\* OrbitEllipse and PlanetSphere
\* ------------------------------------------------------------------------
segments == 96

\* the path indices whose parameter theta is a multiple of 30 degrees
PathIndices == {i \in 0..segments : i % 8 = 0}

\* a = Math.sqrt(semiMajorAxis) * 9 * orbitScale and b = a * Math.sqrt(1 - e * e)
SemiMajorUnscaled(semiMajorAxis, orbitScale) ==
  Mul(Sqrt(semiMajorAxis), Num(9))
SemiMajor(semiMajorAxis, orbitScale) ==
  Mul(Mul(Sqrt(semiMajorAxis), Num(9)), orbitScale)
SemiMinor(a, eccentricity) ==
  Mul(a, Sqrt(Sub(One, Mul(eccentricity, eccentricity))))

\* the point (x, z) of the orbit's plane, tilted by the inclination
Tilted(x, z, inc) == [x |-> x, y |-> Mul(z, Sin(inc)), z |-> Mul(z, Cos(inc))]

\* the point of the ellipse at the parameter theta
EllipsePoint(a, b, theta, inc) == Tilted(Mul(a, Cos(theta)), Mul(b, Sin(theta)), inc)

OrbitEllipse(semiMajorAxis, eccentricity, inclination, orbitScale) ==
  [i \in PathIndices |->
     EllipsePoint(SemiMajor(semiMajorAxis, orbitScale),
                  SemiMinor(SemiMajor(semiMajorAxis, orbitScale), eccentricity),
                  Mul(Mul(Div(Num(i), Num(segments)), PI), Num(2)),
                  Mul(inclination, DEG2RAD))]

PlanetSphere(planet, orbitScale) ==
  EllipsePoint(SemiMajor(planet.orbit.semiMajorAxis, orbitScale),
               SemiMinor(SemiMajor(planet.orbit.semiMajorAxis, orbitScale),
                         planet.orbit.eccentricity),
               Mul(planet.orbit.currentAngle, DEG2RAD),
               Mul(planet.orbit.inclination, DEG2RAD))

\* ------------------------------------------------------------------------
\* Strings, spectralColor, starDisplayRadius, cylToCartesian
\* ------------------------------------------------------------------------
\* a string is the record of its characters, so that the empty string differs
\* from undefined
Str(chars) == [str |-> chars]

LowerCase == <<"a", "b", "c", "d", "e", "f", "g", "h", "i", "j", "k", "l", "m",
               "n", "o", "p", "q", "r", "s", "t", "u", "v", "w", "x", "y", "z">>
UpperCase == <<"A", "B", "C", "D", "E", "F", "G", "H", "I", "J", "K", "L", "M",
               "N", "O", "P", "Q", "R", "S", "T", "U", "V", "W", "X", "Y", "Z">>

UpperChar(c) ==
  IF \E i \in DOMAIN LowerCase : LowerCase[i] = c
  THEN UpperCase[CHOOSE i \in DOMAIN LowerCase : LowerCase[i] = c]
  ELSE c

\* s?.toUpperCase()
toUpperCase(s) ==
  IF s = Undefined THEN Undefined
  ELSE Str([i \in DOMAIN s.str |-> UpperChar(s.str[i])])

\* the colour table of spectralColor: map[key], undefined for a key it lacks
ColorMap(key) ==
  IF key = Str(<<"O">>) THEN "#5c7aff"
  ELSE IF key = Str(<<"B">>) THEN "#7a9fff"
  ELSE IF key = Str(<<"A">>) THEN "#a4bfff"
  ELSE IF key = Str(<<"F">>) THEN "#f5f0ff"
  ELSE IF key = Str(<<"G">>) THEN "#ffe44d"
  ELSE IF key = Str(<<"K">>) THEN "#ff8c00"
  ELSE IF key = Str(<<"M">>) THEN "#ff4500"
  ELSE "undefined"

spectralColorCaseSensitive(spectralClass) ==
  LET c == ColorMap(spectralClass)
  IN  IF c = "undefined" THEN "#ffffff" ELSE c
spectralColor(spectralClass) ==
  LET c == ColorMap(toUpperCase(spectralClass))
  IN  IF c = "undefined" THEN "#ffffff" ELSE c

base == Frac(12, 100)

ClassScale(spectralClass) ==
  IF spectralClass = Str(<<"O">>) \/ spectralClass = Str(<<"B">>) THEN Frac(16, 10)
  ELSE IF spectralClass = Str(<<"F">>) THEN Frac(12, 10)
  ELSE IF spectralClass = Str(<<"G">>) THEN Num(1)
  ELSE IF spectralClass = Str(<<"K">>) THEN Frac(85, 100)
  ELSE IF spectralClass = Str(<<"M">>) THEN Frac(65, 100)
  ELSE Num(1)

starDisplayRadiusUnclamped(spectralClass, stellarRadius) ==
  Mul(Mul(base, ClassScale(spectralClass)), Max(Frac(6, 10), stellarRadius))
starDisplayRadius(spectralClass, stellarRadius) ==
  Mul(Mul(base, ClassScale(spectralClass)),
      Max(Frac(6, 10), Min(stellarRadius, Num(2))))

cylToCartesianSwapped(azimuth, distance, elevation) ==
  LET a == Mul(azimuth, DEG2RAD)
  IN  <<Mul(distance, Sin(a)), elevation, Mul(distance, Cos(a))>>
cylToCartesian(azimuth, distance, elevation) ==
  LET a == Mul(azimuth, DEG2RAD)
  IN  <<Mul(distance, Cos(a)), elevation, Mul(distance, Sin(a))>>

\* ------------------------------------------------------------------------
\* GalaxyScene: the camera targets
\* ------------------------------------------------------------------------
Null == [null |-> TRUE]
NegInfinity == <<-1, 0, 0>>

\* planets.filter((p) => p.starSystemId === system.id)
PlanetsOf(system, planets) ==
  SelectSeq(planets, LAMBDA p : p.starSystemId = system.id)

\* the extents pushed for the planets: Math.sqrt(semiMajorAxis) * 9 * oScale
PlanetExtentsUnscaled(sysPlanets, oScale) ==
  [i \in 1..Len(sysPlanets) |->
     Mul(Sqrt(sysPlanets[i].orbit.semiMajorAxis), Num(9))]
PlanetExtents(sysPlanets, oScale) ==
  [i \in 1..Len(sysPlanets) |->
     Mul(Mul(Sqrt(sysPlanets[i].orbit.semiMajorAxis), Num(9)), oScale)]

\* extents.length > 0 ? Math.max(...extents) : 5
MaxExtentOf(extents) ==
  IF Len(extents) > 0 THEN MaxOf(NegInfinity, extents) ELSE Num(5)

\* the star layout's extent, then one extent per planet of the system
SystemExtent(starMaxExtent, sysPlanets) ==
  MaxExtentOf(<<starMaxExtent>> \o
                PlanetExtents(sysPlanets, computeOrbitScale(starMaxExtent, sysPlanets)))

maxOrbitExtent(selectedSystem, planets) ==
  IF selectedSystem = Null THEN Zero
  ELSE SystemExtent(computeStarLayout(selectedSystem.stars).maxExtent,
                    PlanetsOf(selectedSystem, planets))

\* Math.tan(halfFov), halfFov = (55 / 2) * DEG2RAD: 0.52056705..., an irrational
\* number; the fraction is its continued-fraction convergent, within 4e-7
TanHalfFov == Frac(367, 705)
paddingBelowOne == Frac(65, 100)
padding == Frac(135, 100)
elevFrac == Frac(55, 100)
fwdFrac == Frac(75, 100)
\* norm is Math.sqrt(elevFrac ** 2 + fwdFrac ** 2) = sqrt(0.865), irrational: it
\* stays symbolic, NormSq is its square
NormSq == Add(Mul(elevFrac, elevFrac), Mul(fwdFrac, fwdFrac))

CamDistUnpadded(extent) ==
  Min(Num(200), Max(Num(10), Div(extent, TanHalfFov)))
CamDist(extent) ==
  Min(Num(200), Max(Num(10), Div(Mul(extent, padding), TanHalfFov)))

\* a camera position is the point (x, y + up / norm, z + fwd / norm)
Vector3(x, y, z) == [x |-> x, y |-> y, z |-> z, up |-> Zero, fwd |-> Zero]

systemCamPos(selectedSystem, extent) ==
  IF selectedSystem = Null THEN Vector3(Num(0), Num(30), Num(35))
  ELSE LET c == cylToCartesian(selectedSystem.position.azimuth,
                               selectedSystem.position.distance,
                               selectedSystem.position.elevation)
           camDist == CamDist(extent)
       IN  [x |-> c[1], y |-> c[2], z |-> c[3],
            up |-> Mul(camDist, elevFrac), fwd |-> Mul(camDist, fwdFrac)]

systemLookAt(selectedSystem) ==
  IF selectedSystem = Null THEN Vector3(Num(0), Num(0), Num(0))
  ELSE LET c == cylToCartesian(selectedSystem.position.azimuth,
                               selectedSystem.position.distance,
                               selectedSystem.position.elevation)
       IN  Vector3(c[1], c[2], c[3])

galaxyCamPos == Vector3(Num(0), Num(30), Num(35))
galaxyLookAt == Vector3(Num(0), Num(0), Num(0))

\* ------------------------------------------------------------------------
\* The systems the model draws.  Field values come from small sets chosen so
\* that every square root the code takes is an element of Q(sqrt 3).
\* ------------------------------------------------------------------------
MaxChanges == 2
MaxPlanets == 2
MaxPhase == 1

\* physical radii (display radius at its floor, and above it)
RadiusValues == {Frac(1, 4), Num(1)}
\* mass: absent, zero, negative, positive
MassValues == {Undefined, Num(0), Num(-1), Num(1), Num(2)}
\* author-specified orbit radius: absent, zero, positive
HintValues == {Undefined, Num(0), Frac(3, 20)}
\* a four-star ring has rational pair distances only when adjacent masses are
\* the legs of a Pythagorean triple
RingMasses == {<<Num(40), Num(9), Num(40), Num(9)>>, <<Num(9), Num(40), Num(9), Num(40)>>}
StarCounts == {0, 1, 2, 3, 4}

\* mass tuples for which Math.sqrt of every adjacent pair's coefficient is exact
MassTuples(N) ==
  IF N = 4 THEN RingMasses
  ELSE {ms \in [1..N -> MassValues] :
          LET infos == [i \in 1..N |-> [mass |-> OrElse(ms[i], One)]]
          IN  N >= 2 => \A i \in 1..N :
                HasSqrt(DistCoeffSq(infos, i, (i % N) + 1, Div(Mul(Num(2), PI), Num(N))))}

\* the number of fields in which a star list departs from the plain list
\* (radius 1/4, mass 1 or a ring mass, no hint)
Changes(s) ==
  Cardinality({i \in 1..Len(s) : s[i].radius # Frac(1, 4)})
  + Cardinality({i \in 1..Len(s) : s[i].mass \notin {Num(1), Num(9), Num(40)}})
  + Cardinality({i \in 1..Len(s) : s[i].orbitRadius # Undefined})

StarLists ==
  UNION {{s \in {[i \in 1..N |-> [radius |-> rs[i], mass |-> ms[i], orbitRadius |-> hs[i]]] :
                   rs \in [1..N -> RadiusValues], ms \in MassTuples(N),
                   hs \in [1..N -> HintValues]} :
            Changes(s) <= MaxChanges} :
         N \in StarCounts}

SmaValues == {Frac(1, 16), Num(1)}
EccValues == {Zero, Frac(4, 5)}
\* inclination and current angle, in degrees
PoseValues == {<<Num(0), Num(0)>>, <<Num(30), Num(90)>>}

OrbitShapes == {[semiMajorAxis |-> a, eccentricity |-> e] : a \in SmaValues, e \in EccValues}

\* the planets of one list share a pose and differ in their orbits' shapes
PlanetLists ==
  UNION {{[p \in 1..n |-> [orbit |-> [semiMajorAxis |-> shapes[p].semiMajorAxis,
                                      eccentricity |-> shapes[p].eccentricity,
                                      inclination |-> pose[1],
                                      currentAngle |-> pose[2]]]] :
            shapes \in [1..n -> OrbitShapes], pose \in PoseValues} :
         n \in 0..MaxPlanets}

\* every star list is drawn without planets; with one planet, the star lists
\* one change away from plain; with more planets, the plain star lists
PlainStarLists == {s \in StarLists : Changes(s) = 0}
NearPlainStarLists == {s \in StarLists : Changes(s) <= 1}

HostsOf(ps) ==
  IF Len(ps) = 0 THEN StarLists
  ELSE IF Len(ps) = 1 THEN NearPlainStarLists ELSE PlainStarLists

Systems == UNION {{[stars |-> s, planets |-> ps] : s \in HostsOf(ps)} : ps \in PlanetLists}

\* frame phases t, multiples of 30 degrees
Phases == {Frac(j, 6) : j \in 0..MaxPhase}

\* ------------------------------------------------------------------------
\* The state machine: a selected system is rendered by SystemDetailScene,
\* then the frame loop moves the star groups
\* ------------------------------------------------------------------------
VARIABLES
  stars,        \* system.stars of the selected system
  planets,      \* the planets handed to SystemDetailScene
  stage,        \* "selected" before the first render, "mounted" after it
  starLayout,   \* useMemo(() => computeStarLayout(system.stars))
  orbitScale,   \* useMemo(() => computeOrbitScale(starLayout.maxExtent, planets))
  groupPos,     \* position of each star group (groupRefs.current[i].position)
  planetPos,    \* position of each PlanetSphere group
  orbitPaths,   \* points of each OrbitEllipse
  phase,        \* t of the last frame, Undefined before the first
  op,           \* the function, component or handler last applied
  arg,          \* its arguments
  ret,          \* what it returned, or the exception it raised
  page,         \* "mounted" while GalaxyMap is on screen, "unmounted" after
  worldId,      \* useParams().worldId
  selectedSystem,   \* GalaxyMap state: Null or a star system
  starSystems,      \* GalaxyMap state: Null or the loaded star systems
  galaxyPlanets,    \* GalaxyMap state planets: Null or the loaded planets
  loading,          \* GalaxyMap state
  selectedStarId,   \* GalaxyMap state
  selectedPlanetId, \* GalaxyMap state
  fetches,      \* the fetches started so far, each with its cancelled flag
  animating,    \* GalaxyScene state
  prevSelected, \* GalaxyScene ref: id of the system last animated to
  timers,       \* the pending setTimeout timers
  timerSeq,     \* number of timers created so far; a timer's id is its rank
  cleanupTimer, \* the timer the animation effect's cleanup will clear, 0 if none
  extentMemo,   \* useMemo value maxOrbitExtent
  camPosMemo,   \* useMemo value systemCamPos
  lookAtMemo,   \* useMemo value systemLookAt
  systemPlanets, \* useMemo value systemPlanets
  toolName,     \* useToolQuery argument
  queryDeps,    \* useToolQuery argument deps
  data,         \* useToolQuery state
  queryLoading, \* useToolQuery state loading
  error,        \* useToolQuery state
  calls         \* the callTool calls issued so far

sceneVars == <<stars, planets, stage, starLayout, orbitScale, groupPos, planetPos,
               orbitPaths, phase>>
fnVars == <<op, arg, ret>>
pageVars == <<page, worldId, selectedSystem, starSystems, galaxyPlanets, loading,
              selectedStarId, selectedPlanetId, fetches>>
galaxySceneVars == <<animating, prevSelected, timers, timerSeq, cleanupTimer,
                     extentMemo, camPosMemo, lookAtMemo, systemPlanets>>
viewVars == <<pageVars, galaxySceneVars>>
hookVars == <<toolName, queryDeps, data, queryLoading, error, calls>>
vars == <<sceneVars, fnVars, viewVars, hookVars>>

\* no function is applied on its own
FnIdle == op = "none" /\ arg = Undefined /\ ret = Undefined
\* GalaxyScene is not on screen
GalaxySceneIdle ==
  /\ animating = FALSE /\ prevSelected = "null" /\ timers = {} /\ timerSeq = 0
  /\ cleanupTimer = 0
  /\ extentMemo = Undefined /\ camPosMemo = Undefined /\ lookAtMemo = Undefined
  /\ systemPlanets = Undefined
\* the galaxy page is not on screen
ViewIdle ==
  /\ page = "none" /\ worldId = "none"
  /\ selectedSystem = Null /\ starSystems = Null /\ galaxyPlanets = Null
  /\ loading = FALSE /\ selectedStarId = "" /\ selectedPlanetId = ""
  /\ fetches = <<>>
  /\ GalaxySceneIdle
\* no component uses useToolQuery
HookIdle ==
  /\ toolName = "none" /\ queryDeps = 0 /\ data = Null /\ queryLoading = FALSE
  /\ error = Null /\ calls = <<>>
\* no system is handed to SystemDetailScene
SceneIdle ==
  /\ stars = <<>> /\ planets = <<>> /\ stage = "none"
  /\ starLayout = Undefined /\ orbitScale = Undefined /\ phase = Undefined
  /\ groupPos = <<>> /\ planetPos = <<>> /\ orbitPaths = <<>>

Init ==
  /\ \E sys \in Systems : stars = sys.stars /\ planets = sys.planets
  /\ stage = "selected"
  /\ starLayout = Undefined
  /\ orbitScale = Undefined
  /\ groupPos = <<>>
  /\ planetPos = <<>>
  /\ orbitPaths = <<>>
  /\ phase = Undefined
  /\ FnIdle
  /\ ViewIdle
  /\ HookIdle

\* SystemDetailScene renders: both memos, the star groups at their default
\* position, and one OrbitEllipse and PlanetSphere per planet
SystemDetailScene ==
  /\ stage = "selected"
  /\ starLayout' = computeStarLayout(stars)
  /\ orbitScale' = computeOrbitScale(starLayout'.maxExtent, planets)
  /\ groupPos' = [i \in 1..Len(starLayout'.infos) |-> Origin]
  /\ planetPos' = [p \in 1..Len(planets) |-> PlanetSphere(planets[p], orbitScale')]
  /\ orbitPaths' = [p \in 1..Len(planets) |->
                     OrbitEllipse(planets[p].orbit.semiMajorAxis,
                                  planets[p].orbit.eccentricity,
                                  planets[p].orbit.inclination, orbitScale')]
  /\ stage' = "mounted"
  /\ UNCHANGED <<stars, planets, phase>>
  /\ UNCHANGED <<fnVars, viewVars, hookVars>>

\* one frame of MultiStarSystem at phase t; clock.elapsedTime never runs back
UseFrame(t) ==
  /\ stage = "mounted"
  /\ IF phase = Undefined THEN TRUE ELSE Ge(t, phase)
  /\ groupPos' = MultiStarFrame(starLayout, Len(stars), groupPos, t)
  /\ phase' = t
  /\ UNCHANGED <<stars, planets, stage, starLayout, orbitScale, planetPos, orbitPaths>>
  /\ UNCHANGED <<fnVars, viewVars, hookVars>>

Next ==
  \/ SystemDetailScene
  \/ \E t \in Phases : UseFrame(t)

Spec == Init /\ [][Next]_vars

\* ------------------------------------------------------------------------
\* The functions and components applied on their own, to arguments drawn from
\* the records a snapshot may hold (fields absent, lists empty)
\* ------------------------------------------------------------------------
MaxStars == 2

TypeError == [throws |-> "TypeError"]

ClassInputs ==
  {Undefined, Str(<<>>), Str(<<"X">>), Str(<<"G", "2">>), Str(<<"g", "2">>)}
    \cup {Str(<<c>>) : c \in {"O", "B", "A", "F", "G", "K", "M"}}
    \cup {Str(<<c>>) : c \in {"o", "b", "a", "f", "g", "k", "m"}}
\* physical radii: absent, negative, zero, small, ordinary, large, huge, infinite
RadiusInputs ==
  {Undefined, Num(-1), Num(0), Frac(1, 4), Num(1), Num(4), Num(100), PosInfinity}
FnStars ==
  {[spectralClass |-> c, radius |-> r, mass |-> m, orbitRadius |-> Undefined] :
     c \in {Str(<<"G">>), Str(<<"M">>)}, r \in {Undefined, Frac(1, 4), Num(100)},
     m \in {Undefined, Num(1)}}
FnStarLists == UNION {[1..n -> FnStars] : n \in 0..MaxStars}
FnPositions ==
  {[azimuth |-> Num(0), distance |-> Num(0), elevation |-> Num(0)],
   [azimuth |-> Num(120), distance |-> Num(10), elevation |-> Num(-2)]}
FnSystems ==
  {[id |-> "s", position |-> pos, stars |-> ss] : pos \in FnPositions, ss \in FnStarLists}
FnPlanetLists ==
  {<<>>} \cup {<<[orbit |-> [semiMajorAxis |-> a, eccentricity |-> Zero]]>> :
                 a \in SmaValues}
\* combined extents, up to beyond the reach of the farthest camera
ExtentInputs ==
  {Num(-1), Num(0), Frac(1, 4), Frac(21, 10), Num(5), Num(77), Num(78), Num(104),
   Num(105), Num(180)}

\* azimuths in degrees: negative, zero, within a turn, beyond one and two turns
AzimuthInputs ==
  {Num(-90), Num(0), Num(30), Num(120), Num(180), Num(270), Num(390), Num(720)}
\* radial distances: the galactic centre and away from it
DistanceInputs == {Num(0), Num(4), Num(10)}
ElevationInputs == {Num(-2), Num(0), Num(1)}
\* orbital elements: round and eccentric orbits, flat, tilted and upright
\* planes, the planet at angle 0 and a quarter turn on
FnOrbits ==
  {[semiMajorAxis |-> a, eccentricity |-> e, inclination |-> inc, currentAngle |-> ang] :
     a \in {Frac(1, 16), Num(1), Num(4)}, e \in {Zero, Frac(3, 5), Frac(4, 5)},
     inc \in {Num(0), Num(30), Num(90), Num(-60)}, ang \in {Num(0), Num(90)}}
ScaleInputs == {Num(1), Num(2), Frac(5, 2)}

\* StarMarker: what it draws for a system, or the exception reading it raises
StarMarker(system) ==
  LET primaryStar == IF Len(system.stars) = 0 THEN Undefined ELSE system.stars[1]
  IN  IF primaryStar = Undefined THEN TypeError
      ELSE [color |-> spectralColor(primaryStar.spectralClass),
            pos |-> cylToCartesian(system.position.azimuth, system.position.distance,
                                   system.position.elevation),
            displayRadius |-> starDisplayRadius(primaryStar.spectralClass,
                                                primaryStar.radius)]

\* the galaxy-view info panel of the system sys: the chip naming the class of
\* its first star
InfoPanel(sys) ==
  LET star == IF Len(sys.stars) = 0 THEN Undefined ELSE sys.stars[1]
  IN  IF star = Undefined THEN TypeError
      ELSE [classChip |-> star.spectralClass]

\* one application per behaviour: a pure function's result owes nothing to
\* the applications before it
Apply(f, a, r) ==
  /\ op = "none"
  /\ op' = f /\ arg' = a /\ ret' = r
  /\ UNCHANGED <<sceneVars, viewVars, hookVars>>

ApplySpectralColor == \E c \in ClassInputs : Apply("spectralColor", c, spectralColor(c))
ApplyStarDisplayRadius ==
  \E c \in ClassInputs, r \in RadiusInputs :
    Apply("starDisplayRadius", <<c, r>>, starDisplayRadius(c, r))
ApplyComputeStarLayout ==
  \E ss \in FnStarLists : Apply("computeStarLayout", ss, computeStarLayout(ss))
ApplyComputeOrbitScale ==
  \E e \in {Frac(6, 10), Num(3)}, ps \in FnPlanetLists :
    Apply("computeOrbitScale", <<e, ps>>, computeOrbitScale(e, ps))
ApplyMaxOrbitExtent ==
  \E sys \in FnSystems : Apply("maxOrbitExtent", sys, maxOrbitExtent(sys, <<>>))
ApplySystemCamPos ==
  \E pos \in FnPositions, e \in ExtentInputs :
    Apply("systemCamPos", <<pos, e>>,
          [position |-> systemCamPos([position |-> pos], e),
           lookAt |-> systemLookAt([position |-> pos])])
ApplyCylToCartesian ==
  \E az \in AzimuthInputs, d \in DistanceInputs, el \in ElevationInputs :
    Apply("cylToCartesian", <<az, d, el>>, cylToCartesian(az, d, el))
ApplyOrbitEllipse ==
  \E o \in FnOrbits, sc \in ScaleInputs :
    Apply("OrbitEllipse", <<o, sc>>,
          OrbitEllipse(o.semiMajorAxis, o.eccentricity, o.inclination, sc))
ApplyPlanetSphere ==
  \E o \in FnOrbits, sc \in ScaleInputs :
    Apply("PlanetSphere", <<o, sc>>, PlanetSphere([orbit |-> o], sc))
ApplyStarMarker == \E sys \in FnSystems : Apply("StarMarker", sys, StarMarker(sys))
ApplyInfoPanel == \E sys \in FnSystems : Apply("InfoPanel", sys, InfoPanel(sys))

FnInit == SceneIdle /\ FnIdle /\ ViewIdle /\ HookIdle
FnNext ==
  \/ ApplySpectralColor
  \/ ApplyStarDisplayRadius
  \/ ApplyComputeStarLayout
  \/ ApplyComputeOrbitScale
  \/ ApplyMaxOrbitExtent
  \/ ApplySystemCamPos
  \/ ApplyCylToCartesian
  \/ ApplyOrbitEllipse
  \/ ApplyPlanetSphere
  \/ ApplyStarMarker
  \/ ApplyInfoPanel
FnSpec == FnInit /\ [][FnNext]_vars

\* ------------------------------------------------------------------------
\* GalaxyMap and GalaxyScene: the page's state, its fetches, the two views,
\* the camera animation and the memoised camera targets
\* ------------------------------------------------------------------------
MaxFetches == 2
MaxTransitions == 2

Worlds == {"w1", "w2"}

\* a loaded collection, as opposed to Null before the first fetch resolves
Loaded(docs) == [docs |-> docs]

StarG == [spectralClass |-> Str(<<"G">>), radius |-> Num(1), mass |-> Num(1),
          orbitRadius |-> Undefined]
StarM == [spectralClass |-> Str(<<"M">>), radius |-> Frac(1, 4), mass |-> Num(1),
          orbitRadius |-> Undefined]
SystemA ==
  [id |-> "A", stars |-> <<StarG>>,
   position |-> [azimuth |-> Num(120), distance |-> Num(10), elevation |-> Num(-2)]]
SystemB ==
  [id |-> "B", stars |-> <<StarM, StarM>>,
   position |-> [azimuth |-> Num(0), distance |-> Num(4), elevation |-> Num(1)]]
PlanetDoc(id, systemId, sma, inc, angle) ==
  [id |-> id, starSystemId |-> systemId,
   orbit |-> [semiMajorAxis |-> sma, eccentricity |-> Zero, inclination |-> inc,
              currentAngle |-> angle]]
PlanetNear == PlanetDoc("p1", "A", Num(1), Num(0), Num(0))
PlanetFar == PlanetDoc("p2", "A", Num(144), Num(30), Num(90))
PlanetClose == PlanetDoc("p3", "B", Frac(1, 16), Num(0), Num(0))
\* what a fetch may find in the database: two systems with planets, the same
\* with a far planet more, or nothing
Snapshots ==
  {[systems |-> <<SystemA, SystemB>>, planets |-> <<PlanetNear, PlanetClose>>],
   [systems |-> <<SystemA, SystemB>>, planets |-> <<PlanetNear, PlanetFar, PlanetClose>>],
   [systems |-> <<>>, planets |-> <<>>]}

\* React's useMemo: the value is computed again when a dependency changed
UseMemoKeepsFirstDepOnly(value, oldValue, deps, oldDeps) ==
  IF deps[1] = oldDeps[1] THEN oldValue ELSE value
UseMemo(value, oldValue, deps, oldDeps) ==
  IF deps = oldDeps THEN oldValue ELSE value

\* GalaxyScene is rendered once both collections are loaded
SceneMounted(ss, pl) == ss # Null /\ pl # Null

IdOf(sel) == IF sel = Null THEN "null" ELSE sel.id

\* the cleanup the animation effect returned: clearTimeout(timer)
EffectCleanupKeepsTimer(pending, timer) == pending
EffectCleanup(pending, timer) == pending \ {timer}

\* GalaxyScene and what it renders, once GalaxyMap's state has become
\* (selectedSystem', starSystems', galaxyPlanets'): the animation effect, the
\* memoised camera targets and, in System view, SystemDetailScene
GalaxyScene ==
  IF ~SceneMounted(starSystems', galaxyPlanets')
  THEN /\ UNCHANGED galaxySceneVars
       /\ UNCHANGED sceneVars
  ELSE LET first == ~SceneMounted(starSystems, galaxyPlanets)
           sel == selectedSystem'
           pl == galaxyPlanets'.docs
           currentId == IdOf(sel)
           runs == first \/ sel # selectedSystem
           cleaned == IF runs THEN EffectCleanup(timers, cleanupTimer) ELSE timers
           \* the dependencies of the render before; none on the first render
           oldSel == IF first THEN Undefined ELSE selectedSystem
           oldPlanets == IF first THEN Undefined ELSE galaxyPlanets
       IN  /\ extentMemo' =
                UseMemo(maxOrbitExtent(sel, pl), extentMemo,
                        <<sel, galaxyPlanets'>>, <<oldSel, oldPlanets>>)
           /\ camPosMemo' =
                UseMemo(systemCamPos(sel, extentMemo'), camPosMemo,
                        <<sel, extentMemo'>>, <<oldSel, extentMemo>>)
           /\ lookAtMemo' =
                UseMemo(systemLookAt(sel), lookAtMemo, <<sel>>, <<oldSel>>)
           /\ systemPlanets' =
                UseMemo(IF sel = Null THEN <<>> ELSE PlanetsOf(sel, pl), systemPlanets,
                        <<sel, galaxyPlanets'>>, <<oldSel, oldPlanets>>)
           /\ IF runs /\ currentId # prevSelected
              THEN /\ prevSelected' = currentId
                   /\ animating' = TRUE
                   /\ timerSeq' = timerSeq + 1
                   /\ timers' = cleaned \cup {timerSeq'}
                   /\ cleanupTimer' = timerSeq'
              ELSE /\ timers' = cleaned
                   /\ cleanupTimer' = IF runs THEN 0 ELSE cleanupTimer
                   /\ UNCHANGED <<prevSelected, animating, timerSeq>>
           /\ IF sel = Null
              THEN /\ stars' = <<>> /\ planets' = <<>> /\ stage' = "none"
                   /\ starLayout' = Undefined /\ orbitScale' = Undefined
                   /\ groupPos' = <<>> /\ planetPos' = <<>> /\ orbitPaths' = <<>>
              ELSE /\ stars' = sel.stars
                   /\ planets' = systemPlanets'
                   /\ stage' = "mounted"
                   /\ starLayout' = computeStarLayout(stars')
                   /\ orbitScale' = computeOrbitScale(starLayout'.maxExtent, planets')
                   /\ groupPos' = [i \in 1..Len(starLayout'.infos) |-> Origin]
                   /\ planetPos' = [p \in 1..Len(planets') |->
                                      PlanetSphere(planets'[p], orbitScale')]
                   /\ orbitPaths' = [p \in 1..Len(planets') |->
                                       OrbitEllipse(planets'[p].orbit.semiMajorAxis,
                                                    planets'[p].orbit.eccentricity,
                                                    planets'[p].orbit.inclination,
                                                    orbitScale')]
           /\ phase' = Undefined

targetPos == IF selectedSystem # Null THEN camPosMemo ELSE galaxyCamPos
targetLook == IF selectedSystem # Null THEN lookAtMemo ELSE galaxyLookAt

\* the handler or callback that ran, and the marker or planet it was called on
HandlerOn(name, a) == op' = name /\ arg' = a /\ UNCHANGED ret
Handler(name) == HandlerOn(name, Undefined)

\* one run of the fetch effect: its world, its cancelled flag, whether its
\* promise has settled and whether its .then has written the snapshot
Fetch(w) == [world |-> w, cancelled |-> FALSE, settled |-> FALSE, wrote |-> FALSE]
\* the fetch effect's cleanup sets the cancelled flag of the fetch it started
CancelLatestNever(fs) == fs
CancelLatest(fs) ==
  [i \in DOMAIN fs |-> IF i = Len(fs) THEN [fs[i] EXCEPT !.cancelled = TRUE] ELSE fs[i]]

\* GalaxyMap mounts: the state's initial values, and the fetch effect has
\* started the first fetch
ViewInit ==
  /\ page = "mounted"
  /\ worldId \in Worlds
  /\ selectedSystem = Null /\ starSystems = Null /\ galaxyPlanets = Null
  /\ loading = TRUE
  /\ selectedStarId = "" /\ selectedPlanetId = ""
  /\ fetches = <<Fetch(worldId)>>
  /\ GalaxySceneIdle
  /\ SceneIdle
  /\ op = "GalaxyMap" /\ arg = Undefined /\ ret = Undefined
  /\ HookIdle

\* the route's worldId changes: the fetch effect's cleanup cancels the fetch
\* in flight and the effect starts another one
ChangeWorld(w) ==
  /\ page = "mounted"
  /\ w # worldId
  /\ Len(fetches) < MaxFetches
  /\ worldId' = w
  /\ loading' = TRUE
  /\ fetches' = Append(CancelLatest(fetches), Fetch(w))
  /\ UNCHANGED <<page, selectedSystem, starSystems, galaxyPlanets, selectedStarId,
                 selectedPlanetId>>
  /\ UNCHANGED <<galaxySceneVars, sceneVars>>
  /\ Handler("useEffect")
  /\ UNCHANGED hookVars

\* the test of the cancelled flag in .then and in .finally
WritesAlways(f) == TRUE
Writes(f) == ~f.cancelled

\* fetch i resolves with the documents snap: .then and .finally
Resolve(i, snap) ==
  /\ ~fetches[i].settled
  /\ fetches' = [fetches EXCEPT ![i].settled = TRUE, ![i].wrote = Writes(fetches[i])]
  /\ IF Writes(fetches[i])
     THEN /\ starSystems' = Loaded(snap.systems)
          /\ galaxyPlanets' = Loaded(snap.planets)
          /\ loading' = FALSE
     ELSE UNCHANGED <<starSystems, galaxyPlanets, loading>>
  /\ UNCHANGED <<page, worldId, selectedSystem, selectedStarId, selectedPlanetId>>
  /\ IF page = "mounted" THEN GalaxyScene ELSE UNCHANGED <<galaxySceneVars, sceneVars>>
  /\ Handler("then")
  /\ UNCHANGED hookVars

\* fetch i rejects: .catch logs the error, .finally
Reject(i) ==
  /\ ~fetches[i].settled
  /\ fetches' = [fetches EXCEPT ![i].settled = TRUE]
  /\ loading' = IF Writes(fetches[i]) THEN FALSE ELSE loading
  /\ UNCHANGED <<page, worldId, selectedSystem, starSystems, galaxyPlanets,
                 selectedStarId, selectedPlanetId>>
  /\ UNCHANGED <<galaxySceneVars, sceneVars>>
  /\ Handler("catch")
  /\ UNCHANGED hookVars

\* the page leaves the screen: both effects' cleanups run
Unmounted ==
  /\ page' = "unmounted"
  /\ fetches' = CancelLatest(fetches)
  /\ timers' = EffectCleanup(timers, cleanupTimer)
  /\ cleanupTimer' = 0
  /\ UNCHANGED <<worldId, selectedSystem, starSystems, galaxyPlanets, loading,
                 selectedStarId, selectedPlanetId>>
  /\ UNCHANGED <<animating, prevSelected, timerSeq, extentMemo, camPosMemo,
                 lookAtMemo, systemPlanets>>
  /\ UNCHANGED sceneVars

Unmount ==
  /\ page = "mounted"
  /\ Unmounted
  /\ Handler("unmount")
  /\ UNCHANGED hookVars

\* the loading overlay covers the page while loading: no pointer event
\* reaches the canvas under it
CanvasReachable == page = "mounted" /\ ~loading

\* the star markers are drawn in Galaxy view only
MarkersShown ==
  page = "mounted" /\ SceneMounted(starSystems, galaxyPlanets) /\ selectedSystem = Null

\* StarMarker.handleClick of the marker of system i
ClickStar(i) ==
  /\ MarkersShown
  /\ CanvasReachable
  /\ i \in DOMAIN starSystems.docs
  /\ selectedStarId' =
       IF selectedStarId = starSystems.docs[i].id THEN selectedStarId
       ELSE starSystems.docs[i].id
  /\ UNCHANGED <<page, worldId, selectedSystem, starSystems, galaxyPlanets, loading,
                 selectedPlanetId, fetches>>
  /\ UNCHANGED <<galaxySceneVars, sceneVars>>
  /\ HandlerOn("StarMarker.handleClick", <<starSystems.docs[i].id>>)
  /\ UNCHANGED hookVars

\* the system the info panel shows: starSystems.find(s => s.id === selectedStarId)
Find(docs, id) ==
  IF \E i \in DOMAIN docs : docs[i].id = id
  THEN docs[CHOOSE i \in DOMAIN docs :
              docs[i].id = id /\ \A j \in 1..(i - 1) : docs[j].id # id]
  ELSE Undefined

InfoPanelShown ==
  /\ page = "mounted"
  /\ selectedSystem = Null /\ selectedStarId # "" /\ starSystems # Null
  /\ Find(starSystems.docs, selectedStarId) # Undefined

\* the info panel's close button
CloseInfoPanel ==
  /\ InfoPanelShown
  /\ selectedStarId' = ""
  /\ UNCHANGED <<page, worldId, selectedSystem, starSystems, galaxyPlanets, loading,
                 selectedPlanetId, fetches>>
  /\ UNCHANGED <<galaxySceneVars, sceneVars>>
  /\ Handler("closeInfoPanel")
  /\ UNCHANGED hookVars

\* the info panel's View System button: handleSelectSystem(sys), then the
\* reset effect and GalaxyScene
handleSelectSystem ==
  /\ InfoPanelShown
  /\ timerSeq < MaxTransitions
  /\ selectedSystem' = Find(starSystems.docs, selectedStarId)
  /\ selectedStarId' = ""
  /\ selectedPlanetId' = ""
  /\ UNCHANGED <<page, worldId, starSystems, galaxyPlanets, loading, fetches>>
  /\ GalaxyScene
  /\ Handler("handleSelectSystem")
  /\ UNCHANGED hookVars

\* the reset effect, run when selectedSystem has changed
ResetEffectKeepsPlanet == selectedStarId' = "" /\ UNCHANGED selectedPlanetId
ResetEffect == selectedStarId' = "" /\ selectedPlanetId' = ""

\* the test of handleBack
BackClearsNever(sel) == FALSE
BackClears(sel) == sel # Null

\* the top bar's back button: handleBack leaves System view, or leaves the
\* page when in Galaxy view
handleBack ==
  /\ page = "mounted"
  /\ IF BackClears(selectedSystem)
     THEN /\ timerSeq < MaxTransitions
          /\ selectedSystem' = Null
          /\ ResetEffect
          /\ UNCHANGED <<page, worldId, starSystems, galaxyPlanets, loading, fetches>>
          /\ GalaxyScene
     ELSE Unmounted
  /\ Handler("handleBack")
  /\ UNCHANGED hookVars

\* onSelect(isSelected ? "" : planet.id)
ToggleKeeps(selected, id) == id
Toggle(selected, id) == IF selected = id THEN "" ELSE id

\* PlanetSphere.handleClick of planet p of the system on screen
ClickPlanet(p) ==
  /\ page = "mounted" /\ SceneMounted(starSystems, galaxyPlanets)
  /\ CanvasReachable
  /\ selectedSystem # Null
  /\ p \in DOMAIN systemPlanets
  /\ selectedPlanetId' = Toggle(selectedPlanetId, systemPlanets[p].id)
  /\ UNCHANGED <<page, worldId, selectedSystem, starSystems, galaxyPlanets, loading,
                 selectedStarId, fetches>>
  /\ UNCHANGED <<galaxySceneVars, sceneVars>>
  /\ HandlerOn("PlanetSphere.handleClick", <<systemPlanets[p].id>>)
  /\ UNCHANGED hookVars

\* a timer set by the animation effect fires: setAnimating(false)
TimerFires(t) ==
  /\ t \in timers
  /\ timers' = timers \ {t}
  /\ animating' = FALSE
  /\ UNCHANGED <<prevSelected, timerSeq, cleanupTimer, extentMemo, camPosMemo,
                 lookAtMemo, systemPlanets>>
  /\ UNCHANGED <<pageVars, sceneVars>>
  /\ Handler("setTimeout")
  /\ UNCHANGED hookVars

Timeout == \E t \in 1..MaxTransitions + 1 : TimerFires(t)

ViewNext ==
  \/ \E w \in Worlds : ChangeWorld(w)
  \/ \E i \in 1..Len(fetches), snap \in Snapshots : Resolve(i, snap)
  \/ \E i \in 1..Len(fetches) : Reject(i)
  \/ Unmount
  \/ \E i \in 1..2 : ClickStar(i)
  \/ CloseInfoPanel
  \/ handleSelectSystem
  \/ handleBack
  \/ \E p \in 1..3 : ClickPlanet(p)
  \/ Timeout

ViewSpec == ViewInit /\ [][ViewNext]_vars
\* a pending timer fires in the end
ViewFairSpec == ViewSpec /\ WF_vars(Timeout)

\* ------------------------------------------------------------------------
\* Vocabulary of the properties
\* ------------------------------------------------------------------------
Mounted == stage = "mounted"
Framed == stage = "mounted" /\ phase # Undefined
NumStars == Len(stars)

Sq(x) == Mul(x, x)

\* the squared distance of p and q, in units of bound
RelDist2(p, q, bound) ==
  Add(Add(Sq(Div(Sub(p.x, q.x), bound)), Sq(Div(Sub(p.y, q.y), bound))),
      Sq(Div(Sub(p.z, q.z), bound)))

\* p and q are at least bound apart
Apart(p, q, bound) == Le(bound, Zero) \/ Ge(RelDist2(p, q, bound), One)

DisplayR(i) == starLayout.infos[i].displayR
HasPositiveMass(s) == s.mass # Undefined /\ Gt(s.mass, Zero)
ExclusionRadius == Add(starLayout.maxExtent, Frac(3, 2))

\* C1: with positive masses and N >= 2, after any frame every pair of distinct
\* stars is at least the sum of their display radii apart (no two display
\* disks overlap at any rotation phase).
C1_NoTwoStarsOverlap ==
  (Framed /\ NumStars >= 2 /\ \A i \in 1..NumStars : HasPositiveMass(stars[i]))
    => \A i, j \in 1..NumStars :
         i # j => Apart(groupPos[i], groupPos[j], Add(DisplayR(i), DisplayR(j)))

\* C2: with at least one planet, every point of every orbit path and every
\* planet position, drawn with the resolved orbitScale, is at distance
\* >= maxExtent + 1.5 from the barycenter.
C2_OrbitsOutsideExclusionZone ==
  (Mounted /\ Len(planets) >= 1)
    => \A p \in 1..Len(planets) :
         /\ Apart(planetPos[p], Origin, ExclusionRadius)
         /\ \A i \in PathIndices : Apart(orbitPaths[p][i], Origin, ExclusionRadius)

\* C2 witness: two planets, orbits pushed outward, and a path point exactly on
\* the boundary of the exclusion zone
C2_Witness ==
  /\ Mounted /\ Len(planets) = 2 /\ Gt(orbitScale, One)
  /\ \E p \in 1..Len(planets) : \E i \in PathIndices :
       RelDist2(orbitPaths[p][i], Origin, ExclusionRadius) = One

\* C3: the resolved orbit scale is at least 1, with and without planets.
C3_OrbitScaleAtLeastOne == Mounted => IsFinite(orbitScale) /\ Ge(orbitScale, One)

\* C3 witness: planets present, some perihelion inside the exclusion zone
C3_Witness == Mounted /\ Len(planets) >= 1 /\ Gt(orbitScale, One)

\* the point at radius r and the given angle on the orbit plane
OnCircle(r, angle) == [x |-> Mul(r, Cos(angle)), y |-> Zero, z |-> Mul(r, Sin(angle))]

\* C4: for N >= 2 every angularly adjacent pair, at its radii and 2*pi/N
\* apart, is at least (displayR_i + displayR_j) * 2.5 apart; for N = 2 the
\* separation r0 + r1 is at least that.
C4_AdjacentPairsKeepSafetyDistance ==
  (Mounted /\ NumStars >= 2)
    => /\ \A i \in 1..NumStars :
            LET j == (i % NumStars) + 1
            IN  Apart(OnCircle(starLayout.orbitRadii[i], Zero),
                      OnCircle(starLayout.orbitRadii[j], Div(Mul(Num(2), PI), Num(NumStars))),
                      Mul(Add(DisplayR(i), DisplayR(j)), Frac(5, 2)))
       /\ NumStars = 2 =>
            Ge(Add(starLayout.orbitRadii[1], starLayout.orbitRadii[2]),
               Mul(Add(DisplayR(1), DisplayR(2)), Frac(5, 2)))

\* C5: a zero, negative or missing mass is resolved to mass 1, and every
\* resolved orbit radius is finite and non-negative.
C5_NonPositiveMassIsOne ==
  Mounted
    => /\ \A i \in 1..NumStars :
            (stars[i].mass = Undefined \/ Le(stars[i].mass, Zero))
              => starLayout.infos[i].mass = One
       /\ \A i \in DOMAIN starLayout.orbitRadii :
            IsFinite(starLayout.orbitRadii[i]) /\ Ge(starLayout.orbitRadii[i], Zero)

RECURSIVE WeightedSum(_, _)
\* sum over the first n stars of mass_i * position_i
WeightedSum(coord, n) ==
  IF n = 0 THEN Zero
  ELSE Add(WeightedSum(coord, n - 1), Mul(starLayout.infos[n].mass, coord[n]))

\* C6: at every phase the mass-weighted sum of the star positions is the
\* zero vector.
C6_BarycenterAtOrigin ==
  Mounted
    => /\ WeightedSum([i \in 1..NumStars |-> groupPos[i].x], NumStars) = Zero
       /\ WeightedSum([i \in 1..NumStars |-> groupPos[i].y], NumStars) = Zero
       /\ WeightedSum([i \in 1..NumStars |-> groupPos[i].z], NumStars) = Zero

\* C6 witness: a frame of a system of unequal masses, stars off the origin
C6_Witness ==
  /\ Framed /\ NumStars >= 3 /\ phase = Frac(1, 6)
  /\ \E i, j \in 1..NumStars : starLayout.infos[i].mass # starLayout.infos[j].mass
  /\ \A i \in 1..NumStars : groupPos[i] # Origin

\* C7: for N >= 2 one scalar k has orbitRadii[i] * mass_i = k for every star,
\* and a strictly heavier star has a strictly smaller orbit radius.
C7_RadiusInverseToMass ==
  (Mounted /\ NumStars >= 2)
    => /\ \A i \in 1..NumStars :
            Mul(starLayout.orbitRadii[i], starLayout.infos[i].mass)
              = Mul(starLayout.orbitRadii[1], starLayout.infos[1].mass)
       /\ \A i, j \in 1..NumStars :
            Gt(starLayout.infos[i].mass, starLayout.infos[j].mass)
              => Lt(starLayout.orbitRadii[i], starLayout.orbitRadii[j])

\* C8: a single star has orbit radius exactly 0, stays at the barycenter, and
\* maxExtent is its display radius, whatever its mass and orbitRadius hint.
C8_SingleStarAtBarycenter ==
  (Mounted /\ NumStars = 1)
    => /\ starLayout.orbitRadii = <<Zero>>
       /\ starLayout.maxExtent = DisplayR(1)
       /\ starLayout.maxExtent =
            Max(Frac(3, 5), Mul(Sqrt(stars[1].radius), Frac(4, 5)))
       /\ groupPos[1] = Origin

\* C8 witness: a single star with a negative mass and a positive hint, after a frame
C8_Witness ==
  /\ Framed /\ NumStars = 1
  /\ stars[1].mass = Num(-1) /\ stars[1].orbitRadius = Frac(3, 20)

\* the reference orbit scale of C9, from the set of unscaled perihelia
RefPerihelia ==
  {Mul(Mul(Sqrt(planets[p].orbit.semiMajorAxis), Num(9)),
       Sub(One, planets[p].orbit.eccentricity)) : p \in 1..Len(planets)}
RefMinPerihelion == CHOOSE m \in RefPerihelia : \A q \in RefPerihelia : Le(m, q)
RefOrbitScale ==
  IF planets = <<>> THEN One
  ELSE IF Ge(RefMinPerihelion, ExclusionRadius) THEN One
  ELSE Div(ExclusionRadius, RefMinPerihelion)

\* C9: the orbit scale is 1 without planets or when the least perihelion is
\* outside the exclusion radius, else exclusionRadius / minPerihelion, and then
\* the least perihelion scaled lands exactly on maxExtent + 1.5.
C9_OrbitScaleIsReference ==
  Mounted
    => /\ orbitScale = RefOrbitScale
       /\ (planets # <<>> /\ Lt(RefMinPerihelion, ExclusionRadius))
            => Mul(RefMinPerihelion, orbitScale) = ExclusionRadius

\* C9 witness: two planets of different perihelion, the second the nearer,
\* and the scale applied
C9_Witness ==
  /\ Mounted /\ Len(planets) = 2 /\ Cardinality(RefPerihelia) = 2
  /\ Lt(Perihelion(planets[2]), Perihelion(planets[1]))
  /\ Lt(RefMinPerihelion, ExclusionRadius)
  /\ planets[2].orbit.semiMajorAxis # One

SpecifiedHints == {stars[i].orbitRadius : i \in 1..NumStars} \ {Undefined}
LargestHint == CHOOSE h \in SpecifiedHints : \A g \in SpecifiedHints : Le(g, h)

\* C10: in a binary with an orbitRadius hint the separation r0 + r1 is at
\* least 20 times the largest hint, and k is not below the collision-avoidance
\* bound.
C10_BinaryHonoursHint ==
  (Mounted /\ NumStars = 2 /\ SpecifiedHints # {})
    => /\ Ge(Add(starLayout.orbitRadii[1], starLayout.orbitRadii[2]),
             Mul(LargestHint, Num(20)))
       /\ Ge(Mul(starLayout.orbitRadii[1], starLayout.infos[1].mass),
             MinKLoop(starLayout.infos, 1, Zero))

\* ------------------------------------------------------------------------
\* C11: for every selected system the camera distance keeps the whole system
\* on screen: camDist * tan(fov / 2) >= the combined extent of the stars and
\* all scaled planet orbits.
\* ------------------------------------------------------------------------
\* the distance between the camera target position and the look-at point
CamDistOf(pos) == Div(pos.up, Frac(55, 100))
HalfWidthAt(dist) == Mul(dist, TanHalfFov)

RefCamDist(e) ==
  LET raw == Div(Mul(e, Frac(135, 100)), TanHalfFov)
  IN  IF Lt(raw, Num(10)) THEN Num(10)
      ELSE IF Gt(raw, Num(200)) THEN Num(200) ELSE raw

C12_CameraDistanceIsClampedFormula ==
  op = "systemCamPos" =>
    LET c == cylToCartesian(arg[1].azimuth, arg[1].distance, arg[1].elevation)
        d == RefCamDist(arg[2])
        p == ret.position
    IN  /\ ret.lookAt = [x |-> c[1], y |-> c[2], z |-> c[3], up |-> Zero, fwd |-> Zero]
        /\ p.x = c[1] /\ p.y = c[2] /\ p.z = c[3]
        /\ p.up = Mul(d, Frac(55, 100)) /\ p.fwd = Mul(d, Frac(75, 100))
        /\ Gt(p.up, Zero) /\ Gt(p.fwd, Zero)
        \* the offset is d * (0, 0.55, 0.75) / norm, a vector of length d
        /\ Add(Sq(Frac(55, 100)), Sq(Frac(75, 100))) = NormSq

\* an extent whose distance falls strictly inside the clamp
C12_Witness ==
  /\ op = "systemCamPos"
  /\ Gt(ret.position.up, Mul(Num(10), elevFrac))
  /\ Lt(ret.position.up, Mul(Num(200), elevFrac))
  /\ arg[1].distance # Zero

\* ------------------------------------------------------------------------
\* C13: the view is always Galaxy (selectedSystem = null, the initial state)
\* or System (one system selected); the only transitions are Galaxy -> System
\* by handleSelectSystem and System -> Galaxy by handleBack, never System(A)
\* -> System(B); handleBack in Galaxy view leaves selectedSystem unchanged and
\* leaves the page.
\* ------------------------------------------------------------------------
C13_TwoViewStates ==
  /\ selectedSystem = Null
  /\ [](selectedSystem = Null \/ selectedSystem \in {SystemA, SystemB})
  /\ [][/\ selectedSystem' # selectedSystem =>
             \/ selectedSystem = Null /\ op' = "handleSelectSystem"
             \/ selectedSystem # Null /\ selectedSystem' = Null /\ op' = "handleBack"
        /\ op' = "handleSelectSystem" => selectedSystem = Null /\ selectedSystem' # Null
        /\ (op' = "handleBack" /\ selectedSystem # Null) =>
             selectedSystem' = Null /\ page' = "mounted"
        /\ (op' = "handleBack" /\ selectedSystem = Null) =>
             selectedSystem' = Null /\ page' = "unmounted"]_vars

\* back in Galaxy view after a visit to a system
C13_Witness ==
  op = "handleBack" /\ page = "mounted" /\ selectedSystem = Null /\ timerSeq >= 2

\* ------------------------------------------------------------------------
\* C14: every change of the selected system's id switches the camera
\* animation on towards the new state's target pose; the animation is
\* switched off by the timer of the last transition only; no animation starts
\* without a transition (none at the initial mount); and once transitions
\* stop, animating does not remain true forever.
\* ------------------------------------------------------------------------
\* the target pose of the view state, computed from the selection and the
\* loaded planets
StateExtent == maxOrbitExtent(selectedSystem, galaxyPlanets.docs)
StatePose(extent) ==
  IF selectedSystem = Null THEN <<galaxyCamPos, galaxyLookAt>>
  ELSE <<systemCamPos(selectedSystem, extent), systemLookAt(selectedSystem)>>

C14_AnimationFollowsLastTransition ==
  /\ ~animating
  /\ [](SceneMounted(starSystems, galaxyPlanets) =>
          extentMemo = StateExtent /\ <<targetPos, targetLook>> = StatePose(extentMemo))
  /\ [][/\ IdOf(selectedSystem') # IdOf(selectedSystem) =>
             /\ animating'
             /\ timerSeq' = timerSeq + 1 /\ timers' = {timerSeq'}
        /\ (animating /\ ~animating') =>
             (op' = "setTimeout" /\ timerSeq \in timers /\ timerSeq \notin timers')
        /\ (~animating /\ animating') => IdOf(selectedSystem') # IdOf(selectedSystem)]_vars
  /\ <>[](page = "mounted" => ~animating)

\* the animation switched off after two transitions
C14_Witness ==
  /\ op = "setTimeout" /\ page = "mounted"
  /\ ~animating /\ timers = {} /\ timerSeq >= 2

\* ------------------------------------------------------------------------
\* C15: a cancelled fetch (the worldId changed or the page was unmounted
\* before it completed) never writes starSystems, planets or loading, whether
\* it resolves or rejects; only the most recently started fetch can update
\* the snapshot.
\* ------------------------------------------------------------------------
C15_CancelledFetchWritesNothing ==
  [][\A i \in DOMAIN fetches :
       (~fetches[i].settled /\ fetches'[i].settled) =>
         /\ fetches[i].cancelled => UNCHANGED <<starSystems, galaxyPlanets, loading>>
         /\ i # Len(fetches) => UNCHANGED <<starSystems, galaxyPlanets, loading>>]_vars

\* a cancelled fetch has resolved while the page waits for a later one
C15_Witness ==
  /\ op = "then" /\ page = "mounted" /\ loading
  /\ \E i \in DOMAIN fetches : fetches[i].cancelled /\ fetches[i].settled

\* ------------------------------------------------------------------------
\* C16: no operation of the galaxy view throws on an empty collection: with
\* zero planets the scale is 1, and for a system with an empty star list the
\* layout, the galaxy marker and the info panel still produce a result.
\* ------------------------------------------------------------------------
C16_NoThrowOnEmptyCollections ==
  /\ op = "computeOrbitScale" => (arg[2] = <<>> => ret = One)
  /\ op = "computeStarLayout" =>
       (arg = <<>> => ret.orbitRadii = <<Zero>> /\ ret.maxExtent = Frac(6, 10))
  /\ op = "StarMarker" => ret # TypeError
  /\ op = "InfoPanel" => ret # TypeError

\* ------------------------------------------------------------------------
\* C17: a star record whose mass or radius is absent is tolerated: the layout
\* returns a finite positive display radius, finite orbit radii and a finite
\* maxExtent, and no NaN reaches the combined extent or the camera distance.
\* ------------------------------------------------------------------------
C17_AbsentFieldsTolerated ==
  /\ op = "computeStarLayout" =>
       /\ \A i \in DOMAIN ret.infos :
            IsFinite(ret.infos[i].displayR) /\ Gt(ret.infos[i].displayR, Zero)
       /\ \A i \in DOMAIN ret.orbitRadii : IsFinite(ret.orbitRadii[i])
       /\ IsFinite(ret.maxExtent)
  /\ op = "maxOrbitExtent" => IsFinite(ret) /\ IsFinite(CamDist(ret))
  /\ op = "starDisplayRadius" => IsFinite(ret) /\ Gt(ret, Zero)

\* ------------------------------------------------------------------------
\* C18: the star layout, the orbit scale and the camera target pose are
\* functions of the current inputs only, the selected system and the planets
\* whose starSystemId matches it, whatever the history of transitions; the
\* snapshot stays as it was fetched.
\* ------------------------------------------------------------------------
Matching(sel, pl) == IF sel = Null THEN <<>> ELSE PlanetsOf(sel, pl.docs)

C18_OutputsDependOnInputsOnly ==
  SceneMounted(starSystems, galaxyPlanets) =>
    /\ extentMemo = maxOrbitExtent(selectedSystem, Matching(selectedSystem, galaxyPlanets))
    /\ camPosMemo = systemCamPos(selectedSystem, extentMemo)
    /\ lookAtMemo = systemLookAt(selectedSystem)
    /\ systemPlanets = Matching(selectedSystem, galaxyPlanets)
    /\ selectedSystem # Null =>
         /\ selectedSystem \in {SystemA, SystemB}
         /\ stars = selectedSystem.stars
         /\ starLayout = computeStarLayout(selectedSystem.stars)
         /\ orbitScale = computeOrbitScale(starLayout.maxExtent,
                                          Matching(selectedSystem, galaxyPlanets))
    /\ \E snap \in Snapshots :
         starSystems.docs = snap.systems /\ galaxyPlanets.docs = snap.planets

\* the planets were fetched again while a system stayed selected
C18_Witness ==
  /\ op = "then" /\ page = "mounted" /\ ~loading
  /\ selectedSystem # Null /\ Len(fetches) >= 2
  /\ Len(systemPlanets) = 2

\* ------------------------------------------------------------------------
\* C19: every star's display radius equals
\* base * classMultiplier * clamp(physicalRadius, 0.6, 2.0) for every class
\* and every physical radius: positive, at most base * multiplier * 2, with
\* multipliers O = B > F > G > K > M; the bound holds for the galaxy
\* markers' display radius and for the one the layout solver returns.
\* ------------------------------------------------------------------------
RefMultiplier(c) ==
  IF c \in {Str(<<"O">>), Str(<<"B">>)} THEN Frac(16, 10)
  ELSE IF c = Str(<<"F">>) THEN Frac(12, 10)
  ELSE IF c = Str(<<"K">>) THEN Frac(85, 100)
  ELSE IF c = Str(<<"M">>) THEN Frac(65, 100)
  ELSE One
RefClamp(x, lo, hi) == IF Lt(x, lo) THEN lo ELSE IF Gt(x, hi) THEN hi ELSE x
RefDisplayRadius(c, r) ==
  Mul(Mul(Frac(12, 100), RefMultiplier(c)), RefClamp(r, Frac(6, 10), Num(2)))
RefDisplayBound(c) == Mul(Mul(Frac(12, 100), RefMultiplier(c)), Num(2))

C19_DisplayRadiusBounded ==
  /\ Gt(RefMultiplier(Str(<<"O">>)), RefMultiplier(Str(<<"F">>)))
  /\ Gt(RefMultiplier(Str(<<"F">>)), RefMultiplier(Str(<<"G">>)))
  /\ Gt(RefMultiplier(Str(<<"G">>)), RefMultiplier(Str(<<"K">>)))
  /\ Gt(RefMultiplier(Str(<<"K">>)), RefMultiplier(Str(<<"M">>)))
  /\ (op = "starDisplayRadius" /\ arg[2] # Undefined) =>
       /\ ret = RefDisplayRadius(arg[1], arg[2])
       /\ Gt(ret, Zero) /\ Le(ret, RefDisplayBound(arg[1]))
  /\ (op = "StarMarker" /\ ret # TypeError /\ arg.stars[1].radius # Undefined) =>
       /\ Gt(ret.displayRadius, Zero)
       /\ Le(ret.displayRadius, RefDisplayBound(arg.stars[1].spectralClass))
  /\ op = "computeStarLayout" =>
       \A i \in DOMAIN ret.infos :
         arg[i].radius # Undefined =>
           /\ Gt(ret.infos[i].displayR, Zero)
           /\ Le(ret.infos[i].displayR, RefDisplayBound(arg[i].spectralClass))

\* C19, amended: the formula, the sign and the bound hold for
\* starDisplayRadius and so for the galaxy markers; the display radius the
\* layout solver returns is max(0.6, sqrt(radius) * 0.8) for the first star
\* and max(0.4, sqrt(radius) * 0.6) for the others: positive, and not held to
\* the bound.
RefLayoutRadius(i, r) ==
  IF i = 1 THEN Max(Frac(6, 10), Mul(Sqrt(r), Frac(8, 10)))
  ELSE Max(Frac(4, 10), Mul(Sqrt(r), Frac(6, 10)))

C19_MarkerDisplayRadiusBounded ==
  /\ Gt(RefMultiplier(Str(<<"O">>)), RefMultiplier(Str(<<"F">>)))
  /\ Gt(RefMultiplier(Str(<<"F">>)), RefMultiplier(Str(<<"G">>)))
  /\ Gt(RefMultiplier(Str(<<"G">>)), RefMultiplier(Str(<<"K">>)))
  /\ Gt(RefMultiplier(Str(<<"K">>)), RefMultiplier(Str(<<"M">>)))
  /\ (op = "starDisplayRadius" /\ arg[2] # Undefined) =>
       /\ ret = RefDisplayRadius(arg[1], arg[2])
       /\ Gt(ret, Zero) /\ Le(ret, RefDisplayBound(arg[1]))
  /\ (op = "StarMarker" /\ ret # TypeError /\ arg.stars[1].radius # Undefined) =>
       /\ ret.displayRadius =
            RefDisplayRadius(arg.stars[1].spectralClass, arg.stars[1].radius)
       /\ Gt(ret.displayRadius, Zero)
       /\ Le(ret.displayRadius, RefDisplayBound(arg.stars[1].spectralClass))
  /\ op = "computeStarLayout" =>
       \A i \in DOMAIN ret.infos :
         arg[i].radius # Undefined =>
           /\ ret.infos[i].displayR = RefLayoutRadius(i, arg[i].radius)
           /\ Gt(ret.infos[i].displayR, Zero)

\* a hot star of an extreme radius drawn at exactly the bound
C19_Witness ==
  /\ op = "starDisplayRadius"
  /\ arg = <<Str(<<"O">>), Num(100)>>
  /\ ret = RefDisplayBound(Str(<<"O">>))
  /\ ret = Frac(384, 1000)

\* ------------------------------------------------------------------------
\* C20: spectralColor is total: for O, B, A, F, G, K, M in either letter
\* case it returns the class's table colour, and for every other input
\* (unknown, multi-letter, empty, missing) it returns #ffffff.
\* ------------------------------------------------------------------------
RefTable ==
  {<<"O", "o", "#5c7aff">>, <<"B", "b", "#7a9fff">>, <<"A", "a", "#a4bfff">>,
   <<"F", "f", "#f5f0ff">>, <<"G", "g", "#ffe44d">>, <<"K", "k", "#ff8c00">>,
   <<"M", "m", "#ff4500">>}
RefColor(c) ==
  IF c # Undefined /\ \E row \in RefTable : c \in {Str(<<row[1]>>), Str(<<row[2]>>)}
  THEN (CHOOSE row \in RefTable : c \in {Str(<<row[1]>>), Str(<<row[2]>>)})[3]
  ELSE "#ffffff"

C20_SpectralColorTotal == op = "spectralColor" => ret = RefColor(arg)

\* a lower-case class code that receives its table colour
C20_Witness ==
  op = "spectralColor" /\ arg = Str(<<"k">>) /\ ret = "#ff8c00"

\* ------------------------------------------------------------------------
\* useToolQuery (src/src/hooks/useWorldbuilder.ts): the hook's state and the
\* callTool calls in flight
\* ------------------------------------------------------------------------
MaxCalls == 3

Tools == {"list_entities", "get_entity"}
DepsValues == {1, 2}
\* result.error of an unsuccessful result: absent, or a message
ErrorInputs == {Undefined, [message |-> "not found"]}

\* one call of refetch: the tool it calls, the queryDeps it was created with,
\* and whether its promise has settled and how
Call(t, d) == [toolName |-> t, deps |-> d, settled |-> FALSE, outcome |-> "pending"]

\* the data and the message carried by the response to call i
DataOf(i) == [from |-> i]
ErrorOf(i, message) == [from |-> i, message |-> message]

\* refetch up to the await: setLoading(true), setError(null), callTool
refetch(t, d) ==
  /\ Len(calls) < MaxCalls
  /\ queryLoading' = TRUE
  /\ error' = Null
  /\ calls' = Append(calls, Call(t, d))
  /\ UNCHANGED data

\* the component mounts: initial state, and the effect calls refetch
HookInit ==
  /\ toolName \in Tools /\ queryDeps \in DepsValues
  /\ data = Null /\ queryLoading = TRUE /\ error = Null
  /\ calls = <<Call(toolName, queryDeps)>>
  /\ SceneIdle /\ FnIdle /\ ViewIdle

\* a render with another toolName or other queryDeps: refetch is created again
\* and the effect calls it
Rerender(t, d) ==
  /\ <<t, d>> # <<toolName, queryDeps>>
  /\ toolName' = t /\ queryDeps' = d
  /\ refetch(t, d)
  /\ UNCHANGED <<sceneVars, fnVars, viewVars>>

\* the caller invokes the refetch the hook returned
Refetch ==
  /\ refetch(toolName, queryDeps)
  /\ UNCHANGED <<toolName, queryDeps>>
  /\ UNCHANGED <<sceneVars, fnVars, viewVars>>

Settle(i, outcome) == [calls EXCEPT ![i].settled = TRUE, ![i].outcome = outcome]

\* call i resolves with success: setData, then finally setLoading(false)
Succeed(i) ==
  /\ ~calls[i].settled
  /\ calls' = Settle(i, "data")
  /\ data' = DataOf(i)
  /\ queryLoading' = FALSE
  /\ UNCHANGED <<toolName, queryDeps, error>>
  /\ UNCHANGED <<sceneVars, fnVars, viewVars>>

\* call i resolves without success: setError(result.error ?? "Unknown error")
Fail(i, e) ==
  /\ ~calls[i].settled
  /\ calls' = Settle(i, "error")
  /\ error' = ErrorOf(i, Nullish(e, [message |-> "Unknown error"]).message)
  /\ queryLoading' = FALSE
  /\ UNCHANGED <<toolName, queryDeps, data>>
  /\ UNCHANGED <<sceneVars, fnVars, viewVars>>

\* call i rejects: catch sets the error's message
Throw(i) ==
  /\ ~calls[i].settled
  /\ calls' = Settle(i, "error")
  /\ error' = ErrorOf(i, "Failed to fetch")
  /\ queryLoading' = FALSE
  /\ UNCHANGED <<toolName, queryDeps, data>>
  /\ UNCHANGED <<sceneVars, fnVars, viewVars>>

HookNext ==
  \/ \E t \in Tools, d \in DepsValues : Rerender(t, d)
  \/ Refetch
  \/ \E i \in 1..Len(calls) : Succeed(i)
  \/ \E i \in 1..Len(calls), e \in ErrorInputs : Fail(i, e)
  \/ \E i \in 1..Len(calls) : Throw(i)

HookSpec == HookInit /\ [][HookNext]_vars

\* ------------------------------------------------------------------------
\* C21: cylToCartesian round-trips the azimuth: atan2(z, x) of its result is
\* the azimuth modulo 360 degrees, and y is the elevation.
\* ------------------------------------------------------------------------
\* Math.atan2(z, x) in degrees, in (-180, 180], for a direction that is a
\* multiple of 30 degrees; atan2(0, 0) is 0
Atan2Deg(z, x) ==
  IF x = Zero /\ z = Zero THEN Num(0)
  ELSE Num(30 * (CHOOSE j \in -5..6 :
                   /\ Mul(z, Cos(Frac(j, 6))) = Mul(x, Sin(Frac(j, 6)))
                   /\ Gt(Add(Mul(x, Cos(Frac(j, 6))), Mul(z, Sin(Frac(j, 6)))), Zero)))
\* a and b, in degrees, differ by whole turns
SameModulo360(a, b) ==
  LET d == Sub(a, b) IN d[2] = 0 /\ d[3] = 1 /\ d[1] % 360 = 0

C21_AzimuthRoundTrip ==
  op = "cylToCartesian" =>
    /\ SameModulo360(Atan2Deg(ret[3], ret[1]), arg[1])
    /\ ret[2] = arg[3]

\* C21, amended: the azimuth is recovered when the distance is positive (at
\* distance 0 every azimuth gives the same point); y is the elevation always.
C21_AzimuthRoundTripOffCentre ==
  op = "cylToCartesian" =>
    /\ Gt(arg[2], Zero) => SameModulo360(Atan2Deg(ret[3], ret[1]), arg[1])
    /\ ret[2] = arg[3]
    /\ Add(Sq(ret[1]), Sq(ret[3])) = Sq(arg[2])

\* an azimuth beyond one turn, recovered as 30 degrees
C21_Witness ==
  /\ op = "cylToCartesian" /\ arg[1] = Num(390) /\ arg[2] = Num(4)
  /\ Atan2Deg(ret[3], ret[1]) = Num(30)
  /\ ret[3] = Num(2)

\* ------------------------------------------------------------------------
\* C22: for valid orbital elements and every orbitScale the path of
\* OrbitEllipse is closed, its first point (index 0) and its last (index 96)
\* are identical; the planet drawn at currentAngle 0 is at that first point,
\* on the positive x axis at distance sqrt(semiMajorAxis) * 9 * orbitScale.
\* ------------------------------------------------------------------------
RefStart(o, scale) ==
  [x |-> Mul(Mul(Sqrt(o.semiMajorAxis), Num(9)), scale), y |-> Zero, z |-> Zero]

C22_OrbitPathClosed ==
  /\ op = "OrbitEllipse" =>
       /\ ret[0] = ret[96]
       /\ ret[0] = RefStart(arg[1], arg[2])
       /\ Gt(ret[0].x, Zero)
  /\ (op = "PlanetSphere" /\ arg[1].currentAngle = Zero) =>
       /\ ret = RefStart(arg[1], arg[2])
       /\ ret = OrbitEllipse(arg[1].semiMajorAxis, arg[1].eccentricity,
                             arg[1].inclination, arg[2])[0]

\* an eccentric, tilted, scaled orbit whose path leaves the x axis and
\* comes back to its start
C22_Witness ==
  /\ op = "OrbitEllipse"
  /\ arg[1].eccentricity = Frac(4, 5) /\ arg[1].inclination = Num(30)
  /\ arg[2] = Frac(5, 2)
  /\ ret[24].y # Zero /\ ret[48].x = Neg(ret[0].x)
  /\ ret[96] = ret[0]

\* ------------------------------------------------------------------------
\* C23: for N >= 2 the maxExtent of the star layout is the maximum over the
\* stars of orbitRadii[i] + displayR_i, so at every rotation phase every
\* star's display disk lies within distance maxExtent of the barycenter.
\* ------------------------------------------------------------------------
RefEnds == {Add(starLayout.orbitRadii[i], DisplayR(i)) : i \in 1..NumStars}
RefMaxEnd == CHOOSE e \in RefEnds : \A f \in RefEnds : Le(f, e)

\* the disk of radius r around p lies within distance bound of the barycenter
DiskWithin(p, r, bound) ==
  IF Gt(Sub(bound, r), Zero) THEN Le(RelDist2(p, Origin, Sub(bound, r)), One)
  ELSE Sub(bound, r) = Zero /\ p = Origin

C23_MaxExtentCoversStars ==
  /\ (Mounted /\ NumStars >= 2) => starLayout.maxExtent = RefMaxEnd
  /\ (Framed /\ NumStars >= 2) =>
       \A i \in 1..NumStars : DiskWithin(groupPos[i], DisplayR(i), starLayout.maxExtent)

\* the same with every mass positive
C23_MaxExtentCoversStarsOfPositiveMass ==
  (Framed /\ NumStars >= 2 /\ \A i \in 1..NumStars : HasPositiveMass(stars[i])) =>
    /\ starLayout.maxExtent = RefMaxEnd
    /\ \A i \in 1..NumStars : DiskWithin(groupPos[i], DisplayR(i), starLayout.maxExtent)

\* ------------------------------------------------------------------------
\* C24: for a selected system the combined extent the camera is framed with
\* is the maximum of the star layout's maxExtent and, over exactly the
\* planets of that system, sqrt(semiMajorAxis) * 9 * orbitScale, with the
\* orbitScale SystemDetailScene draws them with; it is positive and no drawn
\* orbit path point is farther from the system's centre.
\* ------------------------------------------------------------------------
\* the extents of the planets on screen, at the scale they are drawn with
DrawnExtents ==
  {Mul(Mul(Sqrt(planets[p].orbit.semiMajorAxis), Num(9)), orbitScale) :
     p \in DOMAIN planets}
RefCombinedExtent ==
  CHOOSE e \in DrawnExtents \cup {starLayout.maxExtent} :
    \A f \in DrawnExtents \cup {starLayout.maxExtent} : Le(f, e)

C24_CombinedExtentCoversSystem ==
  /\ (SceneMounted(starSystems, galaxyPlanets) /\ selectedSystem # Null) =>
       /\ planets = SelectSeq(galaxyPlanets.docs,
                              LAMBDA p : p.starSystemId = selectedSystem.id)
       /\ stars = selectedSystem.stars
       /\ extentMemo = RefCombinedExtent
       /\ Gt(extentMemo, Zero)
       /\ \A p \in DOMAIN orbitPaths : \A i \in PathIndices :
            Le(RelDist2(orbitPaths[p][i], Origin, extentMemo), One)
  \* the extent of a system without planets, computed on its own
  /\ op = "maxOrbitExtent" =>
       /\ ret = computeStarLayout(arg.stars).maxExtent
       /\ Gt(ret, Zero)

\* a system whose planet is pushed outward by the orbit scale and reaches
\* beyond the stars
C24_Witness ==
  /\ page = "mounted" /\ selectedSystem = SystemB
  /\ Len(planets) = 1 /\ Gt(orbitScale, One)
  /\ Gt(extentMemo, starLayout.maxExtent)
  /\ \E i \in PathIndices : RelDist2(orbitPaths[1][i], Origin, extentMemo) = One

\* ------------------------------------------------------------------------
\* C25: every change of the selected system leaves selectedStarId and
\* selectedPlanetId empty, so in System view no star marker is selected and in
\* Galaxy view no planet is selected.
\* ------------------------------------------------------------------------
C25_SelectionsResetOnTransition ==
  /\ [](/\ selectedSystem # Null => selectedStarId = ""
        /\ selectedSystem = Null => selectedPlanetId = "")
  /\ [][selectedSystem' # selectedSystem =>
          selectedStarId' = "" /\ selectedPlanetId' = ""]_vars

\* a system was entered from the info panel of its selected marker, and the
\* marker's selection is gone
C25_Witness ==
  /\ op = "handleSelectSystem" /\ page = "mounted"
  /\ selectedSystem = SystemB /\ selectedStarId = "" /\ selectedPlanetId = ""

\* ------------------------------------------------------------------------
\* C26: useToolQuery calls the tool again whenever toolName or deps change;
\* once every call has settled, data, error and loading reflect the call
\* issued last (a response of an earlier call arriving later does not
\* overwrite it), and loading is not false while the last call is in flight.
\* ------------------------------------------------------------------------
LatestCall == calls[Len(calls)]
AllSettled == \A i \in DOMAIN calls : calls[i].settled

C26_StateReflectsLatestCall ==
  /\ LatestCall.toolName = toolName /\ LatestCall.deps = queryDeps
  /\ ~queryLoading => LatestCall.settled
  /\ AllSettled =>
       /\ ~queryLoading
       /\ LatestCall.outcome = "data" => data = DataOf(Len(calls)) /\ error = Null
       /\ LatestCall.outcome = "error" =>
            error # Null /\ error.from = Len(calls)

\* ------------------------------------------------------------------------
\* C27: while the page is on screen, loading is true exactly from the start
\* of the latest fetch until that fetch settles; the step in which the latest
\* fetch settles sets loading to false, whether it resolves or rejects, and a
\* rejection leaves the snapshot as it was and the page on screen.
\* ------------------------------------------------------------------------
LatestFetch == fetches[Len(fetches)]

C27_LoadingFollowsLatestFetch ==
  /\ [](page = "mounted" => (loading <=> ~LatestFetch.settled))
  /\ [][(page = "mounted" /\ ~LatestFetch.settled /\ fetches'[Len(fetches)].settled) =>
          /\ ~loading'
          /\ op' \in {"then", "catch"}
          /\ op' = "catch" =>
               /\ UNCHANGED <<starSystems, galaxyPlanets, selectedSystem>>
               /\ page' = "mounted"]_vars

\* the second fetch has rejected: loading is false and the first fetch's
\* snapshot is still there
C27_Witness ==
  /\ op = "catch" /\ page = "mounted" /\ ~loading
  /\ Len(fetches) = 2 /\ LatestFetch.settled /\ ~LatestFetch.wrote
  /\ starSystems # Null

\* ------------------------------------------------------------------------
\* C28: the selected system is null or a member of the loaded starSystems.
\* ------------------------------------------------------------------------
C28_SelectedSystemIsLoaded ==
  selectedSystem # Null =>
    /\ starSystems # Null
    /\ \E i \in DOMAIN starSystems.docs : starSystems.docs[i] = selectedSystem

\* ------------------------------------------------------------------------
\* C29: whenever loading is false and a snapshot is displayed, both lists
\* were written by one fetch, and that fetch was issued for the current
\* worldId, also when the fetch for the current world has failed.
\* ------------------------------------------------------------------------
\* the fetch whose .then wrote the snapshot on display: the last that wrote
IsSnapshotFetch(i) ==
  /\ i \in DOMAIN fetches /\ fetches[i].wrote
  /\ \A j \in DOMAIN fetches : j > i => ~fetches[j].wrote

C29_SnapshotIsOfCurrentWorld ==
  (page = "mounted" /\ ~loading /\ starSystems # Null /\ galaxyPlanets # Null) =>
    /\ \E i \in DOMAIN fetches : IsSnapshotFetch(i) /\ fetches[i].world = worldId
    /\ \E snap \in Snapshots :
         starSystems.docs = snap.systems /\ galaxyPlanets.docs = snap.planets

\* ------------------------------------------------------------------------
\* C30: a planet click happens in System view on a planet of the selected
\* system; clicking the selected planet clears selectedPlanetId, clicking
\* another planet replaces it; as long as the snapshot is the one first
\* loaded, selectedPlanetId is empty or the id of a planet of the selected
\* system; clicking the selected star marker leaves selectedStarId unchanged.
\* ------------------------------------------------------------------------
IsPlanetOfSelected(id) ==
  \E i \in DOMAIN galaxyPlanets.docs :
    /\ galaxyPlanets.docs[i].id = id
    /\ galaxyPlanets.docs[i].starSystemId = selectedSystem.id

C30_PlanetSelectionToggles ==
  /\ [][/\ op' = "PlanetSphere.handleClick" =>
             /\ selectedSystem # Null /\ UNCHANGED selectedSystem
             /\ IsPlanetOfSelected(arg'[1])
             /\ selectedPlanetId = arg'[1] => selectedPlanetId' = ""
             /\ selectedPlanetId # arg'[1] => selectedPlanetId' = arg'[1]
             /\ UNCHANGED selectedStarId
        /\ op' = "StarMarker.handleClick" =>
             /\ selectedSystem = Null
             /\ selectedStarId' = arg'[1]
             /\ UNCHANGED selectedPlanetId]_vars
  /\ []((Len(fetches) = 1 /\ selectedSystem # Null) =>
          (selectedPlanetId = "" \/ IsPlanetOfSelected(selectedPlanetId)))

\* the selected planet was clicked again
C30_Witness ==
  /\ op = "PlanetSphere.handleClick" /\ arg = <<"p2">> /\ selectedPlanetId = ""
  /\ selectedSystem = SystemA

====
